---- MODULE Spec2Model ----
(***************************************************************************)
(* Model of src/app.py: a Streamlit script that is re-run from top to      *)
(* bottom on every interaction.  One run loads the cities and jobs frames, *)
(* rebuilds the two lookup dictionaries, decides whether a search is       *)
(* triggered, resolves the origin and ranks the job rows by distance.      *)
(* Only st.session_state["last_query"] survives from one run to the next.  *)
(*                                                                         *)
(* Text is a sequence of one-character strings, so that strip, lower,      *)
(* split and the \d{5} search are computed rather than assumed.  A data    *)
(* frame cell is a record [k, n, s]: k is its kind ("nan", "none", "int",  *)
(* "flt", "str"), n its number, s its text.  A float is a record [k, n]    *)
(* with k in "num", "nan", "inf"; finite floats are abstracted to naturals.*)
(***************************************************************************)
EXTENDS Integers, Sequences, FiniteSets

\* ------------------------------------------------------------ characters
Uppers == <<"A","B","C","D","E","F","G","H","I","J","K","L","M",
            "N","O","P","Q","R","S","T","U","V","W","X","Y","Z">>
Lowers == <<"a","b","c","d","e","f","g","h","i","j","k","l","m",
            "n","o","p","q","r","s","t","u","v","w","x","y","z">>
DigitChars == <<"0","1","2","3","4","5","6","7","8","9">>

UpperSet == {Uppers[i] : i \in 1..Len(Uppers)}
LowerSet == {Lowers[i] : i \in 1..Len(Lowers)}
DigitSet == {DigitChars[i] : i \in 1..Len(DigitChars)}
LowerOf == [c \in UpperSet |-> Lowers[CHOOSE i \in 1..Len(Uppers) : Uppers[i] = c]]
UpperOf == [c \in LowerSet |-> Uppers[CHOOSE i \in 1..Len(Lowers) : Lowers[i] = c]]
ValueOf == [c \in DigitSet |-> (CHOOSE i \in 1..Len(DigitChars) : DigitChars[i] = c) - 1]

IsUpper(c) == c \in UpperSet
IsLower(c) == c \in LowerSet
IsAlpha(c) == IsUpper(c) \/ IsLower(c)
IsDigit(c) == c \in DigitSet
IsSpace(c) == c \in {" ", "\t", "\n"}

CharLower(c) == IF IsUpper(c) THEN LowerOf[c] ELSE c
CharUpper(c) == IF IsLower(c) THEN UpperOf[c] ELSE c
DigitValue(c) == ValueOf[c]

SetMin(S) == CHOOSE m \in S : \A o \in S : m <= o
SetMax(S) == CHOOSE m \in S : \A o \in S : m >= o

\* ------------------------------------------------------------ str methods
\* The empty text, and Python's None where a text or a tuple is expected.
None == <<>>

lower(s) == [i \in 1..Len(s) |-> CharLower(s[i])]
upper(s) == [i \in 1..Len(s) |-> CharUpper(s[i])]

\* str.title(): a letter is upper-cased after a non-letter, lower-cased after a letter.
title(s) ==
  [i \in 1..Len(s) |->
     IF i = 1 \/ ~IsAlpha(s[i - 1]) THEN CharUpper(s[i]) ELSE CharLower(s[i])]

strip(s) ==
  LET keep == {i \in 1..Len(s) : ~IsSpace(s[i])}
  IN  IF keep = {} THEN <<>> ELSE SubSeq(s, SetMin(keep), SetMax(keep))

\* str.split(): the maximal runs of non-whitespace, in order.
RECURSIVE split(_)
split(s) ==
  LET t == strip(s)
      cut == {i \in 1..Len(t) : IsSpace(t[i])}
  IN  IF t = <<>> THEN <<>>
      ELSE IF cut = {} THEN <<t>>
      ELSE <<SubSeq(t, 1, SetMin(cut) - 1)>> \o split(SubSeq(t, SetMin(cut) + 1, Len(t)))

\* re.split(r',|\|', q): the pieces between separators, empty pieces kept.
RECURSIVE re_split(_)
re_split(q) ==
  LET cut == {i \in 1..Len(q) : q[i] \in {",", "|"}}
  IN  IF cut = {} THEN <<q>>
      ELSE <<SubSeq(q, 1, SetMin(cut) - 1)>> \o re_split(SubSeq(q, SetMin(cut) + 1, Len(q)))

\* The width of the pattern \d{5}.
ZipDigits == 5

\* re.search(r'\d{5}', s): the leftmost run of five digits, or None.
re_search(s) ==
  LET at == {i \in 1..(Len(s) - ZipDigits + 1) :
               \A j \in 0..(ZipDigits - 1) : IsDigit(s[i + j])}
  IN  IF at = {} THEN None ELSE SubSeq(s, SetMin(at), SetMin(at) + ZipDigits - 1)

\* ------------------------------------------------------------ cells, floats
NaN == [k |-> "nan", n |-> 0, s |-> <<>>]
PyNone == [k |-> "none", n |-> 0, s |-> <<>>]
IntCell(i) == [k |-> "int", n |-> i, s |-> <<>>]
FltCell(f) == [k |-> "flt", n |-> f, s |-> <<>>]
Txt(t) == [k |-> "str", n |-> 0, s |-> t]

FNum(f) == [k |-> "num", n |-> f]
FNaN == [k |-> "nan", n |-> 0]
FInf == [k |-> "inf", n |-> 0]

RECURSIVE IntToStr(_)
IntToStr(i) ==
  IF i < 10 THEN <<DigitChars[i + 1]>>
  ELSE IntToStr(i \div 10) \o <<DigitChars[(i % 10) + 1]>>

RECURSIVE StrToInt(_)
StrToInt(t) ==
  IF t = <<>> THEN 0
  ELSE 10 * StrToInt(SubSeq(t, 1, Len(t) - 1)) + DigitValue(t[Len(t)])

\* str(x) of a cell: an int prints its digits, a whole float its digits and ".0".
str(c) ==
  CASE c.k = "str" -> c.s
    [] c.k = "int" -> IntToStr(c.n)
    [] c.k = "flt" -> IntToStr(c.n) \o <<".", "0">>
    [] c.k = "nan" -> <<"n", "a", "n">>
    [] OTHER -> <<"N", "o", "n", "e">>

pd_notna(c) == c.k \notin {"nan", "none"}

\* float(x): [ok, v].  ok = FALSE is the ValueError/TypeError float raises.
\* A text parses when, stripped, it is digits or "nan" (signs, fractions and
\* exponents are outside the abstraction of floats to naturals).
float(c) ==
  CASE c.k \in {"int", "flt"} -> [ok |-> TRUE, v |-> FNum(c.n)]
    [] c.k = "nan" -> [ok |-> TRUE, v |-> FNaN]
    [] c.k = "none" -> [ok |-> FALSE, v |-> FNaN]
    [] OTHER ->
       LET t == strip(c.s)
       IN  IF t # <<>> /\ \A i \in 1..Len(t) : IsDigit(t[i])
             THEN [ok |-> TRUE, v |-> FNum(StrToInt(t))]
           ELSE IF lower(t) = <<"n", "a", "n">>
             THEN [ok |-> TRUE, v |-> FNaN]
           ELSE [ok |-> FALSE, v |-> FNaN]

\* ------------------------------------------------------------ dict
\* A Python dict keeps insertion order: a sequence of [key, val], a key once.
DictHas(d, key) == \E i \in 1..Len(d) : d[i].key = key
DictGet(d, key) == d[CHOOSE i \in 1..Len(d) : d[i].key = key].val
DictSet(d, key, val) ==
  IF DictHas(d, key)
    THEN [i \in 1..Len(d) |-> IF d[i].key = key THEN [key |-> key, val |-> val] ELSE d[i]]
    ELSE Append(d, [key |-> key, val |-> val])

\* row.get(col, default) of a frame row (a record of cells).
Get(r, col, default) == IF col \in DOMAIN r THEN r[col] ELSE default

\* ------------------------------------------------------------ frames
\* A loaded CSV after normalize_cols: its column names in order and its rows,
\* each row a record of cells over those columns.  CA_DATA = None is a frame
\* that is not loaded; pd.DataFrame() has no columns and no rows.
NoFrame == [loaded |-> FALSE, columns |-> <<>>, rows |-> <<>>]
Frame(cols, rows) == [loaded |-> TRUE, columns |-> cols, rows |-> rows]
HasColumn(cols, c) == \E i \in 1..Len(cols) : cols[i] = c
empty(df) == Len(df.columns) = 0 \/ Len(df.rows) = 0

\* ------------------------------------------------------------ index build
RECURSIVE RegisterZips(_, _, _)
\* for z in str(zips_field).split(): zc = z.strip(); if zc: zip_to_info[zc] = info
RegisterZips(zinfo, tokens, info) ==
  IF tokens = <<>> THEN zinfo
  ELSE LET zc == strip(Head(tokens))
       IN  RegisterZips(IF zc # <<>> THEN DictSet(zinfo, zc, info) ELSE zinfo,
                        Tail(tokens), info)

\* One pass of the loop body over row r.  ix.raised records an exception that
\* left the loop (and the script run): float() of a cell that does not parse.
IndexRow(ix, r) ==
  LET city_name == strip(str(Get(r, "city", Txt(<<>>))))
      state_id == strip(str(Get(r, "state_id",
                              Get(r, "state", Get(r, "state_name", Txt(<<>>))))))
      lat == Get(r, "lat", PyNone)
      lng == Get(r, "lng", PyNone)
      zips_field == Get(r, "zips", Txt(<<>>))
      la == float(lat)
      lo == float(lng)
      key == <<lower(strip(city_name)), lower(strip(state_id))>>
      coords == <<la.v, lo.v>>
      info == [coords |-> coords, city |-> title(city_name), state |-> upper(state_id)]
  IN  IF ~(pd_notna(lat) /\ pd_notna(lng)) THEN ix
      ELSE IF ~(la.ok /\ lo.ok) THEN [ix EXCEPT !.raised = TRUE]
      ELSE [ix EXCEPT
              !.citystate_to_coords = DictSet(@, key, coords),
              !.zip_to_info = IF pd_notna(zips_field)
                                THEN RegisterZips(@, split(str(zips_field)), info)
                                ELSE @]

RECURSIVE IterRows(_, _)
IterRows(ix, rows) ==
  IF rows = <<>> \/ ix.raised THEN ix
  ELSE IterRows(IndexRow(ix, Head(rows)), Tail(rows))

EmptyIndex == [zip_to_info |-> <<>>, citystate_to_coords |-> <<>>, raised |-> FALSE]

\* Lines 90-115: both dictionaries start empty on every run.
BuildMappings(df) ==
  IF df.loaded /\ HasColumn(df.columns, "lat") /\ HasColumn(df.columns, "lng")
    THEN IterRows(EmptyIndex, df.rows)
    ELSE EmptyIndex

\* ------------------------------------------------------------ job rows
LatCols == <<"latitude", "lat", "job_lat", "latitude_job">>
LonCols == <<"longitude", "lng", "lon", "job_lng", "longitude_job">>

\* 'zip' in c, 'city' in c, 'state' in c, tabulated for the column names in use.
NameHas(c, part) ==
  CASE part = "zip" -> c \in {"zip", "zip_code", "zipcode", "zips"}
    [] part = "city" -> c \in {"city", "client_city"}
    [] part = "state" -> c \in {"state", "state_id", "state_name"}
    [] OTHER -> FALSE

\* Step 1: the first (lat_col, lon_col) pair, in loop order, whose two cells
\* both pass float(); a NaN cell passes.
ExplicitCoords(cols, row) ==
  LET nLon == Len(LonCols)
      latOf(p) == LatCols[((p - 1) \div nLon) + 1]
      lonOf(p) == LonCols[((p - 1) % nLon) + 1]
      hits == {p \in 1..(Len(LatCols) * nLon) :
                 /\ HasColumn(cols, latOf(p))
                 /\ HasColumn(cols, lonOf(p))
                 /\ float(row[latOf(p)]).ok
                 /\ float(row[lonOf(p)]).ok}
  IN  IF hits = {} THEN None
      ELSE <<float(row[latOf(SetMin(hits))]).v, float(row[lonOf(SetMin(hits))]).v>>

\* Step 2: the first zip column whose five-digit run is a key of zip_to_info.
ZipCoords(cols, row, zinfo) ==
  LET zip_cols == SelectSeq(cols, LAMBDA c : NameHas(c, "zip"))
      zval(i) == strip(str(row[zip_cols[i]]))
      hits == {i \in 1..Len(zip_cols) :
                 /\ zval(i) # <<>>
                 /\ re_search(zval(i)) # None
                 /\ DictHas(zinfo, re_search(zval(i)))}
  IN  IF hits = {} THEN None
      ELSE DictGet(zinfo, re_search(zval(SetMin(hits)))).coords

\* The first key of citystate_to_coords, in insertion order, whose city is `city`.
FirstWithCity(cs, city) ==
  LET matches == {i \in 1..Len(cs) : cs[i].key[1] = city}
  IN  IF matches = {} THEN None ELSE cs[SetMin(matches)].val

\* Step 3: the last column named like a city, the last named like a state.
CityCoords(cols, row, cs) ==
  LET cityAt == {i \in 1..Len(cols) : NameHas(cols[i], "city")}
      stateAt == {i \in 1..Len(cols) : NameHas(cols[i], "state")}
      city == lower(strip(str(row[cols[SetMax(cityAt)]])))
      state == IF stateAt = {} THEN <<>>
               ELSE lower(strip(str(row[cols[SetMax(stateAt)]])))
  IN  IF cityAt = {} THEN None
      ELSE IF DictHas(cs, <<city, state>>) THEN DictGet(cs, <<city, state>>)
      ELSE FirstWithCity(cs, city)

\* A resolver for which a zip that misses is final: no city fallback.
get_coords_zip_final(cols, row, zinfo, cs) ==
  LET zip_cols == SelectSeq(cols, LAMBDA c : NameHas(c, "zip"))
      tried == \E i \in 1..Len(zip_cols) : re_search(strip(str(row[zip_cols[i]]))) # None
  IN  IF ExplicitCoords(cols, row) # None THEN ExplicitCoords(cols, row)
      ELSE IF ZipCoords(cols, row, zinfo) # None THEN ZipCoords(cols, row, zinfo)
      ELSE IF tried THEN None
      ELSE CityCoords(cols, row, cs)

get_coords_from_job_row(cols, row, zinfo, cs) ==
  IF ExplicitCoords(cols, row) # None THEN ExplicitCoords(cols, row)
  ELSE IF ZipCoords(cols, row, zinfo) # None THEN ZipCoords(cols, row, zinfo)
  ELSE CityCoords(cols, row, cs)

\* ------------------------------------------------------------ distance
Abs(i) == IF i < 0 THEN -i ELSE i

\* haversine_miles.  The great-circle formula is over reals; coordinates are
\* grid points here and the distance of two of them is their grid distance in
\* miles, which keeps what the ranking uses: a total order, zero for equal
\* points, symmetry.  NaN in a coordinate gives NaN, as sin/cos/atan2 do.
haversine_miles(c1, c2) ==
  IF c1 = None \/ c2 = None THEN FInf
  ELSE IF \E i \in 1..2 : c1[i].k = "nan" \/ c2[i].k = "nan" THEN FNaN
  ELSE FNum(Abs(c1[1].n - c2[1].n) + Abs(c1[2].n - c2[2].n))

\* The mask with an exclusive bound.
WithinRadius_exclusive(d, r) == d.k = "num" /\ d.n < r

\* distance_miles <= radius: False for NaN.
WithinRadius(d, r) == d.k = "num" /\ d.n <= r

\* ------------------------------------------------------------ origin
\* Lines 226-235, search_type "ZIP Code".  stop names the st.stop() taken, "" none.
ZipOrigin(q, zinfo) ==
  LET m == re_search(q)
  IN  IF m = None THEN [stop |-> "invalid_zip", user_coords |-> None]
      ELSE IF DictHas(zinfo, m)
        THEN [stop |-> "", user_coords |-> DictGet(zinfo, m).coords]
      ELSE [stop |-> "", user_coords |-> None]

\* Lines 237-255, search_type "City, State".  parts[0] of an empty list raises.
CityOrigin(q, cs) ==
  LET pieces == re_split(q)
      parts == SelectSeq([i \in 1..Len(pieces) |-> strip(pieces[i])],
                         LAMBDA p : p # <<>>)
      city == lower(parts[1])
      state == IF Len(parts) = 1 THEN <<>> ELSE lower(parts[2])
  IN  IF parts = <<>> THEN [stop |-> "search_raised", user_coords |-> None]
      ELSE IF DictHas(cs, <<city, state>>)
        THEN [stop |-> "", user_coords |-> DictGet(cs, <<city, state>>)]
      ELSE IF FirstWithCity(cs, city) # None
        THEN [stop |-> "", user_coords |-> FirstWithCity(cs, city)]
      ELSE [stop |-> "city_not_found", user_coords |-> None]

\* resolve_origin doing what line 235's warning announces: a zip that is not
\* in the mapping is looked up as a city.
resolve_origin_city_fallback(stype, qry, zinfo, cs) ==
  LET q == strip(qry)
      z == ZipOrigin(q, zinfo)
      o == IF stype = "ZIP Code"
             THEN IF z.stop = "" /\ z.user_coords = None THEN CityOrigin(q, cs) ELSE z
             ELSE CityOrigin(q, cs)
  IN  IF o.stop = "" /\ o.user_coords = None
        THEN [stop |-> "no_coords", user_coords |-> None]
        ELSE o

\* Lines 224-259: the branch on search_type, then `if not user_coords`.
resolve_origin(stype, qry, zinfo, cs) ==
  LET q == strip(qry)
      o == IF stype = "ZIP Code" THEN ZipOrigin(q, zinfo) ELSE CityOrigin(q, cs)
  IN  IF o.stop = "" /\ o.user_coords = None
        THEN [stop |-> "no_coords", user_coords |-> None]
        ELSE o

\* ------------------------------------------------------------ ranking
\* Lines 268-272: one entry per job row, in row order; job is the row's label.
resolved_rows(df, zinfo, cs) ==
  [i \in 1..Len(df.rows) |->
     [job |-> i,
      resolved_coords |-> get_coords_from_job_row(df.columns, df.rows[i], zinfo, cs)]]

\* A ranking that gives up at the first row without coordinates.
dropna_abort(rows) ==
  LET bad == {i \in 1..Len(rows) : rows[i].resolved_coords = None}
  IN  IF bad = {} THEN rows ELSE SubSeq(rows, 1, SetMin(bad) - 1)

\* Line 278: dropna(subset=['resolved_coords']).
dropna(rows) == SelectSeq(rows, LAMBDA e : e.resolved_coords # None)

\* Line 279: the distance column.
with_distance(rows, origin) ==
  [i \in 1..Len(rows) |->
     [job |-> rows[i].job,
      resolved_coords |-> rows[i].resolved_coords,
      distance_miles |-> haversine_miles(origin, rows[i].resolved_coords)]]

\* Line 280, the boolean mask.
radius_filter(rows, r) == SelectSeq(rows, LAMBDA e : WithinRadius(e.distance_miles, r))

IsSortedByDistance(rows) ==
  \A i \in 1..(Len(rows) - 1) : rows[i].distance_miles.n <= rows[i + 1].distance_miles.n

\* Line 280, sort_values('distance_miles') with the default kind='quicksort':
\* not a stable sort, so every ascending arrangement of the rows is an outcome.
sort_values(rows) ==
  LET n == Len(rows)
      perms == {p \in [1..n -> 1..n] : \A i, j \in 1..n : i # j => p[i] # p[j]}
  IN  {s \in {[i \in 1..n |-> rows[p[i]]] : p \in perms} : IsSortedByDistance(s)}

\* Lines 262-280 for a resolved origin: the outcomes of `nearby`.
rank(df, zinfo, cs, origin, r) ==
  sort_values(radius_filter(with_distance(dropna(resolved_rows(df, zinfo, cs)), origin), r))

\* Line 273.
count_missing(df, zinfo, cs) ==
  Cardinality({i \in 1..Len(df.rows) : resolved_rows(df, zinfo, cs)[i].resolved_coords = None})

\* ------------------------------------------------------------ inputs
\* Texts of the reference and job data and of the queries.
T_Ada == <<"A","d","a">>
T_Toledo == <<"T","o","l","e","d","o">>
T_OH == <<"O","H">>
T_OK == <<"O","K">>
T_Ohio == <<"O","h","i","o">>
T_Oklahoma == <<"O","k","l","a","h","o","m","a">>
T_45810 == <<"4","5","8","1","0">>
T_OkZips == <<"7","4","8","2","0"," ","4","5","8","1","0">>
T_43604 == <<"4","3","6","0","4">>
T_Plus4 == <<"4","3","6","0","4","-","1","2","3","4">>
T_99999 == <<"9","9","9","9","9">>
T_Zzz == <<"Z","z","z">>

CityCols == <<"city", "state_id", "state_name", "lat", "lng", "zips">>
CityRow(city, sid, sname, lat, lng, zips) ==
  [city |-> Txt(city), state_id |-> Txt(sid), state_name |-> Txt(sname),
   lat |-> lat, lng |-> lng, zips |-> zips]

\* Ada OH at (1,1), Toledo OH at (2,1), Ada OK at (3,1); 45810 is bound twice.
MainCities ==
  Frame(CityCols,
        <<CityRow(T_Ada, T_OH, T_Ohio, FltCell(1), FltCell(1), Txt(T_45810)),
          CityRow(T_Ada, T_OK, T_Oklahoma, FltCell(3), FltCell(1), Txt(T_OkZips)),
          CityRow(T_Toledo, T_OH, T_Ohio, FltCell(2), FltCell(1), Txt(T_43604))>>)
\* A row without latitude before a well-formed one.
NanCities ==
  Frame(CityCols,
        <<CityRow(T_Toledo, T_OH, T_Ohio, NaN, FltCell(1), Txt(T_43604)),
          CityRow(T_Ada, T_OH, T_Ohio, FltCell(1), FltCell(1), Txt(T_45810))>>)
\* A latitude that does not parse makes the column text; a well-formed row follows.
BadCities ==
  Frame(CityCols,
        <<CityRow(T_Ada, T_OH, T_Ohio, Txt(<<"1">>), FltCell(1), Txt(T_45810)),
          CityRow(T_Toledo, T_OH, T_Ohio, Txt(<<"x">>), FltCell(1), Txt(T_43604)),
          CityRow(T_Ada, T_OK, T_Oklahoma, Txt(<<"3">>), FltCell(1), Txt(T_OkZips))>>)
\* A ZIP+4 token in the zips field.
Plus4Cities ==
  Frame(CityCols,
        <<CityRow(T_Toledo, T_OH, T_Ohio, FltCell(2), FltCell(1), Txt(T_Plus4))>>)
\* One code per row and a blank: pandas reads the zips column as floats.
FloatZipCities ==
  Frame(CityCols,
        <<CityRow(T_Ada, T_OH, T_Ohio, FltCell(1), FltCell(1), FltCell(45810)),
          CityRow(T_Toledo, T_OH, T_Ohio, FltCell(2), FltCell(1), NaN)>>)
\* No 'lat'/'lng' columns: line 115.
NoLatCities ==
  Frame(<<"city", "state_id", "zips">>,
        <<[city |-> Txt(T_Ada), state_id |-> Txt(T_OH), zips |-> Txt(T_45810)]>>)
\* Only a state_name column: the end of the r.get chain of line 102.
NameOnlyCities ==
  Frame(<<"city", "state_name", "lat", "lng">>,
        <<[city |-> Txt(T_Ada), state_name |-> Txt(T_Ohio),
           lat |-> FltCell(1), lng |-> FltCell(1)]>>)

CityFrames == {NoFrame, MainCities, NanCities, BadCities, Plus4Cities,
               FloatZipCities, NoLatCities, NameOnlyCities}

Queries ==
  {<<>>, T_45810, <<"A","d","a",","," ","0","0","0","0","0">>, T_Plus4,
   <<"A","d","a",","," ","O","K">>,
   <<" ","a","d","a"," ",",","O","k","l","a","h","o","m","a">>,
   <<"T","o","l","e","d","i">>, T_Zzz}

JobColsA == <<"client_city", "state", "zip_code">>
JobRowA(city, state, zip) ==
  [client_city |-> Txt(city), state |-> Txt(state), zip_code |-> Txt(zip)]
\* A registered zip; an unregistered zip with a known city; nothing that matches.
JobRowsA == {JobRowA(T_Toledo, T_OH, T_43604),
             JobRowA(T_Ada, T_OK, T_99999),
             JobRowA(T_Zzz, <<>>, T_99999)}

JobColsB == <<"latitude", "longitude", "zip_code", "client_city", "state">>
JobRowB(lat, lng, city, state, zip) ==
  [latitude |-> lat, longitude |-> lng, zip_code |-> Txt(zip),
   client_city |-> Txt(city), state |-> Txt(state)]
\* Explicit coordinates as text; blank coordinates; coordinates that do not parse.
JobRowsB == {JobRowB(Txt(<<"2">>), Txt(<<"1">>), T_Zzz, <<>>, T_99999),
             JobRowB(NaN, NaN, T_Toledo, T_OH, T_43604),
             JobRowB(Txt(<<"x">>), Txt(<<"1">>), T_Ada, T_OK, T_99999)}

\* The longest jobs frame and the widest radius explored.
MaxJobs == 2
MaxRadius == 2
\* The slider's initial value.
DefaultRadius == 40

SeqsUpTo(S, n) == UNION {[1..m -> S] : m \in 0..n}
JobFrames ==
  {NoFrame}
    \cup {Frame(JobColsA, rows) : rows \in SeqsUpTo(JobRowsA, MaxJobs)}
    \cup {Frame(JobColsB, rows) : rows \in SeqsUpTo(JobRowsB, MaxJobs) \ {<<>>}}
Radii == 1..MaxRadius

SessionJobs == {NoFrame, Frame(JobColsA, <<JobRowA(T_Toledo, T_OH, T_43604)>>)}
RankQueries == {<<"A","d","a",","," ","O","H">>, T_43604}

\* ------------------------------------------------------------ one script run
VARIABLES
  city_source,          \* where the cities CSV comes from: "none", "file", "url"
  CA_DATA,              \* the cities frame this run loaded (lines 50-65)
  jobs_df,              \* the jobs frame this run loaded (lines 73-88)
  search_type,          \* st.radio, line 199
  query,                \* st.text_input, line 201
  radius,               \* st.slider, line 203
  button,               \* st.button's value for this run, line 214
  last_query,           \* st.session_state["last_query"]; None when unset
  zip_to_info,          \* line 91, as the run left it
  citystate_to_coords,  \* line 92, as the run left it
  find_clicked,         \* line 220's condition; FALSE when the run never got there
  outcome,              \* how the run ended
  user_coords,          \* line 225 onward
  missing_count,        \* line 273
  nearby                \* line 280

vars == <<city_source, CA_DATA, jobs_df, search_type, query, radius, button, last_query,
          zip_to_info, citystate_to_coords, find_clicked, outcome, user_coords,
          missing_count, nearby>>

SearchTypes == {"City, State", "ZIP Code"}

\* Line 216: Enter is detected by comparing with the stored query.
query_changed(q, last) == q # <<>> /\ last # q

\* Lines 90-115 for each cities frame a run can load.
Mappings == [c \in CityFrames |-> BuildMappings(c)]

\* The script from line 44 to the end with the given frames and widget values.
Run(src, c, j, stype, q, r, b) ==
  LET ix == Mappings[c]
      clicked == b \/ query_changed(q, last_query)
      o == resolve_origin(stype, q, ix.zip_to_info, ix.citystate_to_coords)
  IN  /\ city_source' = src
      /\ CA_DATA' = c
      /\ jobs_df' = j
      /\ search_type' = stype
      /\ query' = q
      /\ radius' = r
      /\ button' = b
      /\ zip_to_info' = ix.zip_to_info
      /\ citystate_to_coords' = ix.citystate_to_coords
      /\ IF ix.raised
           THEN /\ outcome' = "build_raised"
                /\ find_clicked' = FALSE
                /\ UNCHANGED last_query
                /\ user_coords' = None /\ missing_count' = 0 /\ nearby' = <<>>
         ELSE
           /\ last_query' = IF query_changed(q, last_query) THEN q ELSE last_query
           /\ find_clicked' = clicked
           /\ IF ~clicked
                THEN /\ outcome' = "idle"
                     /\ user_coords' = None /\ missing_count' = 0 /\ nearby' = <<>>
              ELSE IF empty(j)
                THEN /\ outcome' = "no_jobs"
                     /\ user_coords' = None /\ missing_count' = 0 /\ nearby' = <<>>
              ELSE IF o.stop # ""
                THEN /\ outcome' = o.stop
                     /\ user_coords' = None /\ missing_count' = 0 /\ nearby' = <<>>
              ELSE /\ outcome' = "ranked"
                   /\ user_coords' = o.user_coords
                   /\ missing_count' =
                        count_missing(j, ix.zip_to_info, ix.citystate_to_coords)
                   /\ nearby' \in rank(j, ix.zip_to_info, ix.citystate_to_coords,
                                       o.user_coords, r)

\* ------------------------------------------------------------ interactions
\* Every interaction re-runs the script.  The search widgets are on the page
\* only if the previous run got past the index build.
Rendered == outcome # "build_raised"

\* The first run of a session: nothing loaded, every widget at its default.
Init ==
  /\ city_source = "none"
  /\ CA_DATA = NoFrame
  /\ jobs_df = NoFrame
  /\ search_type = "City, State"
  /\ query = <<>>
  /\ radius = DefaultRadius
  /\ button = FALSE
  /\ last_query = None
  /\ zip_to_info = <<>>
  /\ citystate_to_coords = <<>>
  /\ find_clicked = FALSE
  /\ outcome = "idle"
  /\ user_coords = None
  /\ missing_count = 0
  /\ nearby = <<>>

\* Lines 51-65: an uploaded file is read again on every run and is the same
\* on every run; a URL is fetched again on every run (line 60) and may serve
\* other content, or fail (CA_DATA stays None), each time.
CitiesRead(served) ==
  IF city_source = "url" THEN served \cup {CA_DATA, NoFrame} ELSE {CA_DATA}

\* The cities file is uploaded, replaced or removed, or a URL is entered.
LoadCities(frames) ==
  \/ \E src \in {"file", "url"}, c \in frames \cup {NoFrame} :
       Run(src, c, jobs_df, search_type, query, radius, FALSE)
  \/ Run("none", NoFrame, jobs_df, search_type, query, radius, FALSE)

\* A jobs CSV is uploaded, removed, or its URL entered (lines 70-88).
LoadJobs(frames) ==
  \E j \in frames :
    Run(city_source, CA_DATA, j, search_type, query, radius, FALSE)

SearchBy ==
  /\ Rendered
  /\ \E stype \in SearchTypes \ {search_type} :
       Run(city_source, CA_DATA, jobs_df, stype, query, radius, FALSE)

EnterQuery(served, queries) ==
  /\ Rendered
  /\ \E c \in CitiesRead(served), q \in queries :
       Run(city_source, c, jobs_df, search_type, q, radius, FALSE)

MoveRadius(radii) ==
  /\ Rendered
  /\ \E r \in radii :
       Run(city_source, CA_DATA, jobs_df, search_type, query, r, FALSE)

ClickFind(served) ==
  /\ Rendered
  /\ \E c \in CitiesRead(served) :
       Run(city_source, c, jobs_df, search_type, query, radius, TRUE)

\* A session over every cities frame and query.
Next ==
  \/ LoadCities(CityFrames)
  \/ LoadJobs(SessionJobs)
  \/ SearchBy
  \/ EnterQuery(CityFrames, Queries)
  \/ ClickFind(CityFrames)

Spec == Init /\ [][Next]_vars

\* A session over every jobs frame and radius, the cities fixed to MainCities.
InitRank ==
  /\ city_source = "file"
  /\ CA_DATA = MainCities
  /\ jobs_df = NoFrame
  /\ search_type = "City, State"
  /\ query = <<>>
  /\ radius = DefaultRadius
  /\ button = FALSE
  /\ last_query = None
  /\ zip_to_info = Mappings[MainCities].zip_to_info
  /\ citystate_to_coords = Mappings[MainCities].citystate_to_coords
  /\ find_clicked = FALSE
  /\ outcome = "idle"
  /\ user_coords = None
  /\ missing_count = 0
  /\ nearby = <<>>

NextRank ==
  \/ LoadJobs(JobFrames)
  \/ SearchBy
  \/ EnterQuery({}, RankQueries)
  \/ MoveRadius(Radii)
  \/ ClickFind({})

SpecRank == InitRank /\ [][NextRank]_vars

\* ------------------------------------------------------------ properties
\* What the state says about the run that produced it.
NearbyJobs == {nearby[i].job : i \in 1..Len(nearby)}
JobLabels == 1..Len(jobs_df.rows)
JobCoords(i) ==
  get_coords_from_job_row(jobs_df.columns, jobs_df.rows[i], zip_to_info, citystate_to_coords)
JobDistance(i) == haversine_miles(user_coords, JobCoords(i))
OriginTried == find_clicked /\ ~empty(jobs_df)

\* The five-digit run of the query, as line 227 finds it.
QueryZip == re_search(strip(query))
ZipQueryMiss ==
  /\ search_type = "ZIP Code"
  /\ QueryZip # None
  /\ ~DictHas(zip_to_info, QueryZip)

C2_RegisteredZipResolves ==
  \A i \in 1..Len(zip_to_info) :
    (/\ search_type = "ZIP Code"
     /\ OriginTried
     /\ outcome # "build_raised"
     /\ query = zip_to_info[i].key)
      => /\ outcome = "ranked"
         /\ user_coords = zip_to_info[i].val.coords

\* C3: the ranked rows are in non-decreasing distance, and rows of equal
\* distance keep the order they have in the jobs frame.
C3_SortedAndStable ==
  outcome = "ranked" =>
    /\ IsSortedByDistance(nearby)
    /\ \A i, j \in 1..Len(nearby) :
         (i < j /\ nearby[i].distance_miles = nearby[j].distance_miles)
           => nearby[i].job < nearby[j].job

\* C4: with the same frames and origin, what a smaller radius ranks a larger
\* radius ranks too, and a job row at exactly the radius is ranked.
C4_RadiusMonotoneInclusive ==
  outcome = "ranked" =>
    LET ranked(r) == rank(jobs_df, zip_to_info, citystate_to_coords, user_coords, r)
        jobsOf(rows) == {rows[i].job : i \in 1..Len(rows)}
    IN  /\ \A i \in JobLabels : JobDistance(i) = FNum(radius) => i \in NearbyJobs
        /\ \A r \in Radii \cup {DefaultRadius} : \A rows \in ranked(r) :
             /\ r > radius => NearbyJobs \subseteq jobsOf(rows)
             /\ r < radius => jobsOf(rows) \subseteq NearbyJobs

\* C4's case: a row at exactly the radius is ranked, a farther one is not.
C4_Witness ==
  /\ outcome = "ranked"
  /\ radius < DefaultRadius
  /\ \E i \in NearbyJobs : JobDistance(i) = FNum(radius)
  /\ \E i \in JobLabels \ NearbyJobs :
       JobDistance(i).k = "num" /\ JobDistance(i).n > radius

\* A job row with no usable explicit coordinates, no registered zip, no known city.
Unresolvable(i) ==
  LET e == ExplicitCoords(jobs_df.columns, jobs_df.rows[i])
  IN  /\ e = None \/ e[1].k = "nan" \/ e[2].k = "nan"
      /\ ZipCoords(jobs_df.columns, jobs_df.rows[i], zip_to_info) = None
      /\ CityCoords(jobs_df.columns, jobs_df.rows[i], citystate_to_coords) = None

RowCity(r) == lower(strip(str(r.city)))
WellFormed(r) ==
  /\ pd_notna(r.lat) /\ pd_notna(r.lng)
  /\ float(r.lat).ok /\ float(r.lng).ok
BothStateColumns ==
  /\ CA_DATA.loaded
  /\ \A c \in {"city", "state_id", "state_name", "lat", "lng"} :
       HasColumn(CA_DATA.columns, c)

\* C6: a row with valid coordinates, an abbreviation and a full state name is
\* registered under (city, abbreviation) and under (city, full name).
C6_BothStateKeys ==
  (BothStateColumns /\ outcome # "build_raised") =>
    \A i \in 1..Len(CA_DATA.rows) :
      LET r == CA_DATA.rows[i]
      IN  WellFormed(r) =>
            /\ DictHas(citystate_to_coords, <<RowCity(r), lower(strip(str(r.state_id)))>>)
            /\ DictHas(citystate_to_coords, <<RowCity(r), lower(strip(str(r.state_name)))>>)

\* C7: a row whose latitude or longitude is missing or does not parse raises
\* nothing and stops nothing: the build ends normally with every well-formed
\* row indexed.
C7_BadRowsSkipped ==
  (CA_DATA.loaded /\ HasColumn(CA_DATA.columns, "lat") /\ HasColumn(CA_DATA.columns, "lng")) =>
    /\ outcome # "build_raised"
    /\ \A i \in 1..Len(CA_DATA.rows) :
         WellFormed(CA_DATA.rows[i]) =>
           \E k \in 1..Len(citystate_to_coords) :
             citystate_to_coords[k].key[1] = RowCity(CA_DATA.rows[i])

\* The city part of a place query, as lines 238-244 take it.
QueryParts ==
  SelectSeq([i \in 1..Len(re_split(strip(query))) |-> strip(re_split(strip(query))[i])],
            LAMBDA p : p # <<>>)
QueryCity == lower(QueryParts[1])
\* One character replaced; difflib's ratio 2M/T is then (n-1)/n, at or above 0.8.
OneCharTypo(a, b) ==
  /\ Len(a) = Len(b)
  /\ Cardinality({i \in 1..Len(a) : a[i] # b[i]}) = 1
  /\ 10 * (Len(a) - 1) >= 8 * Len(a)
PlaceQueryUnmatched ==
  /\ search_type = "City, State"
  /\ OriginTried
  /\ outcome # "build_raised"
  /\ QueryParts # <<>>
  /\ FirstWithCity(citystate_to_coords, QueryCity) = None

\* C8: a place query that matches no city exactly and is one typo away from a
\* known city name resolves to the coordinates of a city of that name.
C8_FuzzyRecoversTypo ==
  (/\ PlaceQueryUnmatched
   /\ \E k \in 1..Len(citystate_to_coords) :
        OneCharTypo(QueryCity, citystate_to_coords[k].key[1]))
    => /\ outcome = "ranked"
       /\ \E k \in 1..Len(citystate_to_coords) :
            /\ OneCharTypo(QueryCity, citystate_to_coords[k].key[1])
            /\ user_coords = citystate_to_coords[k].val

\* A zip column of job row i holds a five-digit run that zip_to_info lacks.
ZipHintMiss(i) ==
  \E k \in 1..Len(jobs_df.columns) :
    /\ NameHas(jobs_df.columns[k], "zip")
    /\ re_search(strip(str(jobs_df.rows[i][jobs_df.columns[k]]))) # None
    /\ ~DictHas(zip_to_info, re_search(strip(str(jobs_df.rows[i][jobs_df.columns[k]]))))

\* C9 as stated: a job row whose zip is not in zip_to_info gets no coordinates
\* and is not ranked, whatever its city and state.
C9_ZipMissDropsCandidate ==
  outcome = "ranked" =>
    \A i \in JobLabels : ZipHintMiss(i) => (JobCoords(i) = None /\ i \notin NearbyJobs)

\* C9 amended: a job row without parseable explicit coordinates whose zip
\* columns hit nothing in zip_to_info is resolved by its city and state: it gets
\* the coordinates of the (city, state) entry, else of the first entry with
\* that city, and is ranked exactly when those lie within the radius; it is
\* dropped only when no entry has its city.
C9_ZipMissFallsBackToCity ==
  outcome = "ranked" =>
    \A i \in JobLabels :
      LET cc == CityCoords(jobs_df.columns, jobs_df.rows[i], citystate_to_coords)
      IN  (/\ ZipHintMiss(i)
           /\ ExplicitCoords(jobs_df.columns, jobs_df.rows[i]) = None
           /\ ZipCoords(jobs_df.columns, jobs_df.rows[i], zip_to_info) = None)
            => (i \in NearbyJobs
                  <=> (cc # None /\ WithinRadius(haversine_miles(user_coords, cc), radius)))

\* C9's case: a row with an unregistered zip is ranked through its city.
C9_Witness ==
  /\ outcome = "ranked"
  /\ \E i \in NearbyJobs :
       /\ ZipHintMiss(i)
       /\ ExplicitCoords(jobs_df.columns, jobs_df.rows[i]) = None

\* C10: a run performs a search exactly when the button was clicked in it or
\* its query is non-empty and differs from the stored last_query, and after a
\* run with a non-empty query last_query is that query.
C10_SearchIffTriggered ==
  [][/\ find_clicked' <=> (button' \/ (query' # <<>> /\ query' # last_query))
     /\ query' # <<>> => last_query' = query']_vars

====
